---- MODULE Spec2Model ----
\* Verification model of the Location and Template resource controllers
\* (src/src/controllers/controller.location.js and src/unnamed/part_000).
\* The data store (Prisma) is modelled by the Store* operators: each store call
\* is one atomic round trip; a handler with several awaits is several steps.
EXTENDS Integers, Sequences, FiniteSets, TLC

\* ------------------------------------------------------------------ bounds
\* Number of Template ids / Location ids the store ever hands out.
MaxTemplates == 2
MaxLocations == 2

\* ------------------------------------------------------------ JS values
\* A JS value is a tagged record; a string is a sequence of one-symbol strings.
Undef == [t |-> "undef"]
Null == [t |-> "null"]
NaN == [t |-> "nan"]
Num(n) == [t |-> "num", v |-> n]
Str(s) == [t |-> "str", v |-> s]
Obj(o) == [t |-> "obj", v |-> o]

\* JS truthiness, as used by `if (x)`, `!x`, `x ? a : b`, `x || d`.
Truthy(x) ==
  CASE x.t = "undef" -> FALSE
    [] x.t = "null" -> FALSE
    [] x.t = "nan" -> FALSE
    [] x.t = "num" -> x.v # 0
    [] x.t = "str" -> Len(x.v) > 0
    [] OTHER -> TRUE

IsSpace(c) == c = " "
IsDigit(c) == c \in {"0", "1", "2", "3", "5"}
DigitVal(c) ==
  CASE c = "0" -> 0 [] c = "1" -> 1 [] c = "2" -> 2 [] c = "3" -> 3 [] OTHER -> 5

RECURSIVE TrimLeft(_)
TrimLeft(s) == IF s # <<>> /\ IsSpace(Head(s)) THEN TrimLeft(Tail(s)) ELSE s

RECURSIVE TrimRight(_)
TrimRight(s) ==
  IF s # <<>> /\ IsSpace(s[Len(s)]) THEN TrimRight(SubSeq(s, 1, Len(s) - 1)) ELSE s

\* String.prototype.trim
Trim(s) == TrimRight(TrimLeft(s))

\* Length of the longest prefix of s made of digits.
RECURSIVE DigitPrefixLen(_)
DigitPrefixLen(s) ==
  IF s # <<>> /\ IsDigit(Head(s)) THEN 1 + DigitPrefixLen(Tail(s)) ELSE 0

\* Decimal value of a sequence of digits.
RECURSIVE DigitsValue(_)
DigitsValue(s) ==
  IF s = <<>> THEN 0
  ELSE 10 * DigitsValue(SubSeq(s, 1, Len(s) - 1)) + DigitVal(s[Len(s)])

\* parseInt(x): leading white space skipped, optional sign, then the longest
\* digit prefix; NaN when there is no digit; trailing characters are ignored.
\* parseInt(undefined) is NaN.
ParseInt(x) ==
  IF x.t # "str" THEN NaN
  ELSE LET s == TrimLeft(x.v)
           neg == s # <<>> /\ Head(s) = "-"
           body == IF neg THEN Tail(s) ELSE s
           n == DigitPrefixLen(body)
       IN IF n = 0 THEN NaN
          ELSE Num((IF neg THEN -1 ELSE 1) * DigitsValue(SubSeq(body, 1, n)))

\* Number(x) on a string: surrounding white space ignored, the empty string
\* is 0, an optionally signed run of digits is its value, anything else NaN.
ToNumber(x) ==
  IF x.t # "str" THEN NaN
  ELSE LET s == Trim(x.v)
           neg == s # <<>> /\ Head(s) = "-"
           body == IF neg THEN Tail(s) ELSE s
       IN IF s = <<>> THEN Num(0)
          ELSE IF body # <<>> /\ DigitPrefixLen(body) = Len(body)
               THEN Num((IF neg THEN -1 ELSE 1) * DigitsValue(body))
               ELSE NaN

LowerChar(c) == CASE c = "A" -> "a" [] c = "B" -> "b" [] OTHER -> c
Lower(s) == [i \in 1..Len(s) |-> LowerChar(s[i])]

\* Prisma { contains: sub, mode: "insensitive" }
ContainsInsensitive(s, sub) ==
  \E i \in 1..(Len(s) - Len(sub) + 1) :
    SubSeq(Lower(s), i, i + Len(sub) - 1) = Lower(sub)

\* Code-point rank of a symbol, for ORDER BY Name ASC.
Rank(c) ==
  CASE c = " " -> 0 [] c = "A" -> 1 [] c = "B" -> 2 [] c = "a" -> 3 [] c = "b" -> 4
    [] OTHER -> 5

RECURSIVE StrLeq(_, _)
StrLeq(a, b) ==
  IF a = <<>> THEN TRUE
  ELSE IF b = <<>> THEN FALSE
  ELSE IF Rank(Head(a)) < Rank(Head(b)) THEN TRUE
  ELSE IF Rank(Head(a)) > Rank(Head(b)) THEN FALSE
  ELSE StrLeq(Tail(a), Tail(b))

\* Object helpers: an object is a function from a finite set of keys.
EmptyObj == [k \in {} |-> Undef]
Has(o, k) == k \in DOMAIN o
Get(o, k) == IF k \in DOMAIN o THEN o[k] ELSE Undef
Without(o, k) == [x \in (DOMAIN o) \ {k} |-> o[x]]
With(o, k, v) == [x \in (DOMAIN o) \cup {k} |-> IF x = k THEN v ELSE o[x]]
Merge(o, p) == [x \in (DOMAIN o) \cup (DOMAIN p) |-> IF x \in DOMAIN p THEN p[x] ELSE o[x]]

\* ---------------------------------------------------------------- state
VARIABLES
  templates,     \* Template rows, most recently updated first (updatedAt desc)
  nextTpl,       \* next Template id the store hands out
  locations,     \* Location rows, most recently created first (createdAt desc)
  nextLoc,       \* next Location id the store hands out
  enforceUnique, \* whether the store has a unique index on Template.name
  creators,      \* createTemplate requests between their two store calls
  lister,        \* the getTemplates request between its two store calls
  last           \* what the most recent handler step did: request, store calls, outcome

vars == <<templates, nextTpl, locations, nextLoc, enforceUnique, creators, lister, last>>

Creators == {"r1", "r2"}
Cities == {<<"c1">>, <<"c2">>}

TplIds == 1..MaxTemplates
LocIds == 1..MaxLocations

\* ------------------------------------------------------ handler outcomes
\* res.status(s).json(d) and next(new ApiError(s, m)) as events of one invocation.
SendEv(s, d) == [k |-> "send", status |-> s, data |-> d]
NextEv(s) == [k |-> "next", status |-> s, data |-> Null]

CountEv(ev, kind) == Cardinality({i \in DOMAIN ev : ev[i].k = kind})

\* The record of a handler step that ended the invocation with events ev.
\* raced records whether the store changed between the step's request's reads.
Outcome(h, req, calls, err, ev) ==
  [h |-> h, step |-> "end", req |-> req, calls |-> calls, err |-> err,
   status |-> IF ev = <<>> THEN 0 ELSE ev[1].status,
   sent |-> CountEv(ev, "send"), fwd |-> CountEv(ev, "next"),
   data |-> IF ev = <<>> THEN Null ELSE ev[1].data, raced |-> FALSE]

\* The record of a handler step that awaits a further store call.
Pending(h, req, calls) ==
  [h |-> h, step |-> "await", req |-> req, calls |-> calls, err |-> "none",
   status |-> 0, sent |-> 0, fwd |-> 0, data |-> Null, raced |-> FALSE]

NoStep == Pending("none", Null, <<>>)

\* ------------------------------------------------------- Template store
Indices(seq, id) == {i \in DOMAIN seq : seq[i].id = id}
Remove(seq, i) == SubSeq(seq, 1, i - 1) \o SubSeq(seq, i + 1, Len(seq))
NamedTpl(seq, n) == {i \in DOMAIN seq : seq[i].name = n}

RECURSIVE FilterSeq(_, _, _)
FilterSeq(seq, Pred(_, _), w) ==
  IF seq = <<>> THEN <<>>
  ELSE (IF Pred(Head(seq), w) THEN <<Head(seq)>> ELSE <<>>) \o FilterSeq(Tail(seq), Pred, w)

\* One filter group of getTemplates against one row.
TplFilterMatches(tpl, f) ==
  IF f.f = "type" THEN tpl.type = f.v
  ELSE \/ ContainsInsensitive(tpl.name, f.v)
       \/ ContainsInsensitive(tpl.body, f.v)
       \/ ContainsInsensitive(tpl.subject, f.v)

\* where = { AND: filters } or {}.
TplMatches(tpl, where) == \A i \in DOMAIN where : TplFilterMatches(tpl, where[i])

\* prisma.template.findUnique({ where: { name } })
StoreTplFindByName(name, fail) ==
  IF fail THEN [err |-> "down", val |-> Null]
  ELSE IF name.t # "str" THEN [err |-> "validation", val |-> Null]
  ELSE IF NamedTpl(templates, name.v) = {} THEN [err |-> "none", val |-> Null]
  ELSE [err |-> "none",
        val |-> templates[CHOOSE i \in NamedTpl(templates, name.v) :
                            \A j \in NamedTpl(templates, name.v) : i <= j]]

\* prisma.template.findUnique({ where: { id } })
StoreTplFindById(id, fail) ==
  IF fail THEN [err |-> "down", val |-> Null]
  ELSE IF Indices(templates, id) = {} THEN [err |-> "none", val |-> Null]
  ELSE [err |-> "none", val |-> templates[CHOOSE i \in Indices(templates, id) : TRUE]]

\* prisma.template.create({ data }): the arguments are validated first; the new
\* row becomes the most recently updated.
StoreTplCreate(data, fail) ==
  IF fail THEN [err |-> "down", val |-> Null, rows |-> templates, used |-> 0]
  ELSE IF \E k \in DOMAIN data : data[k].t # "str"
  THEN [err |-> "validation", val |-> Null, rows |-> templates, used |-> 0]
  ELSE IF enforceUnique /\ NamedTpl(templates, data.name.v) # {}
  THEN [err |-> "P2002", val |-> Null, rows |-> templates, used |-> 0]
  ELSE LET row == [k \in (DOMAIN data) \cup {"id"} |-> IF k = "id" THEN nextTpl ELSE data[k].v]
       IN [err |-> "none", val |-> row, rows |-> <<row>> \o templates, used |-> 1]

\* prisma.template.findMany({ where, orderBy: { updatedAt: "desc" }, skip, take });
\* a negative skip is rejected when the arguments are validated.
StoreTplFindMany(where, skip, take, fail) ==
  IF fail THEN [err |-> "down", val |-> <<>>]
  ELSE IF skip < 0 THEN [err |-> "validation", val |-> <<>>]
  ELSE LET m == FilterSeq(templates, TplMatches, where)
       IN [err |-> "none",
           val |-> SubSeq(m, skip + 1, IF skip + take < Len(m) THEN skip + take ELSE Len(m))]

\* prisma.template.count({ where })
StoreTplCount(where, fail) ==
  IF fail THEN [err |-> "down", val |-> 0]
  ELSE [err |-> "none", val |-> Len(FilterSeq(templates, TplMatches, where))]

TplUpdatable == {"name", "type", "subject", "body", "description", "status", "createdBy"}

\* prisma.template.update({ where: { id }, data }): the arguments are validated
\* before the row is looked up; a missing row is P2025; a name already taken is
\* P2002 under a unique index; the updated row becomes the most recently updated.
StoreTplUpdate(id, data, fail) ==
  IF fail THEN [err |-> "down", val |-> Null, rows |-> templates]
  ELSE IF \E k \in DOMAIN data : k \notin TplUpdatable \/ data[k].t # "str"
  THEN [err |-> "validation", val |-> Null, rows |-> templates]
  ELSE IF Indices(templates, id) = {}
  THEN [err |-> "P2025", val |-> Null, rows |-> templates]
  ELSE LET i == CHOOSE j \in Indices(templates, id) : TRUE
           old == templates[i]
           row == [k \in DOMAIN old |-> IF k \in DOMAIN data THEN data[k].v ELSE old[k]]
       IN IF enforceUnique /\ \E j \in NamedTpl(templates, row.name) : j # i
          THEN [err |-> "P2002", val |-> Null, rows |-> templates]
          ELSE [err |-> "none", val |-> row, rows |-> <<row>> \o Remove(templates, i)]

\* prisma.template.delete({ where: { id } })
StoreTplDelete(id, fail) ==
  IF fail THEN [err |-> "down", rows |-> templates]
  ELSE IF Indices(templates, id) = {} THEN [err |-> "P2025", rows |-> templates]
  ELSE [err |-> "none", rows |-> Remove(templates, CHOOSE j \in Indices(templates, id) : TRUE)]

\* --------------------------------------------------- Template controller
transformTemplate(tpl) ==
  [k \in ((DOMAIN tpl) \ {"id"}) \cup {"_id"} |-> IF k = "_id" THEN tpl.id ELSE tpl[k]]

Dflt(x, d) == IF x.t = "undef" THEN d ELSE x

\* Faulty variant of createTemplateRequired: body is not required.
createTemplateRequiredNoBody(body) ==
  Truthy(Get(body, "name")) /\ Truthy(Get(body, "type"))

\* if (!name || !type || !body)
createTemplateRequired(body) ==
  Truthy(Get(body, "name")) /\ Truthy(Get(body, "type")) /\ Truthy(Get(body, "body"))

\* The data of prisma.template.create, with the destructuring defaults.
createTemplateData(body) ==
  [name |-> Get(body, "name"),
   type |-> Get(body, "type"),
   subject |-> Dflt(Get(body, "subject"), Str(<<>>)),
   body |-> Get(body, "body"),
   description |-> Dflt(Get(body, "description"), Str(<<>>)),
   status |-> Dflt(Get(body, "status"), Str(<<"Active">>)),
   createdBy |-> Str(<<"system">>)]

\* Faulty variant of createTemplateCheck: the result of the lookup is not tested.
createTemplateCheckBlind(body, fail) ==
  IF ~createTemplateRequired(body)
  THEN [to |-> "invalid", calls |-> <<>>, err |-> "none"]
  ELSE LET found == StoreTplFindByName(Get(body, "name"), fail)
           calls == <<[op |-> "findUnique", name |-> Get(body, "name")]>>
       IN IF found.err # "none" THEN [to |-> "error", calls |-> calls, err |-> found.err]
          ELSE [to |-> "insert", calls |-> calls, err |-> "none"]

\* What createTemplate does before its second store call: "invalid" (400, no
\* store call), "error" (500), "exists" (409) or "insert".
createTemplateCheck(body, fail) ==
  IF ~createTemplateRequired(body)
  THEN [to |-> "invalid", calls |-> <<>>, err |-> "none"]
  ELSE LET found == StoreTplFindByName(Get(body, "name"), fail)
           calls == <<[op |-> "findUnique", name |-> Get(body, "name")]>>
       IN IF found.err # "none" THEN [to |-> "error", calls |-> calls, err |-> found.err]
          ELSE IF found.val # Null THEN [to |-> "exists", calls |-> calls, err |-> "none"]
          ELSE [to |-> "insert", calls |-> calls, err |-> "none"]

\* createTemplate from its start to the return of the uniqueness lookup.
CreateTemplateCheck(r, body, fail) ==
  /\ creators[r].pc = "idle"
  /\ LET c == createTemplateCheck(body, fail)
     IN /\ c.to = "insert" => nextTpl <= MaxTemplates
        /\ last' = CASE c.to = "invalid" ->
                           Outcome("createTemplate", body, c.calls, c.err, <<NextEv(400)>>)
                     [] c.to = "error" ->
                           Outcome("createTemplate", body, c.calls, c.err, <<NextEv(500)>>)
                     [] c.to = "exists" ->
                           Outcome("createTemplate", body, c.calls, c.err, <<NextEv(409)>>)
                     [] OTHER -> Pending("createTemplate", body, c.calls)
        /\ creators' = IF c.to = "insert"
                       THEN [creators EXCEPT ![r] = [pc |-> "checked", body |-> body]]
                       ELSE creators
  /\ UNCHANGED <<templates, nextTpl, locations, nextLoc, enforceUnique, lister>>

\* Faulty variant of createTemplateEvents: a unique-index failure is reported as 409.
createTemplateEventsConflict(made) ==
  IF made.err = "P2002" THEN <<NextEv(409)>>
  ELSE IF made.err # "none" THEN <<NextEv(500)>>
  ELSE <<SendEv(201, [success |-> TRUE, data |-> transformTemplate(made.val)])>>

\* createTemplate: the outcome of the insert; every failure is caught as 500.
createTemplateEvents(made) ==
  IF made.err # "none" THEN <<NextEv(500)>>
  ELSE <<SendEv(201, [success |-> TRUE, data |-> transformTemplate(made.val)])>>

\* createTemplate after the lookup found nothing: the insert and the response.
CreateTemplateInsert(r, fail) ==
  /\ creators[r].pc = "checked"
  /\ LET body == creators[r].body
         data == createTemplateData(body)
         made == StoreTplCreate(data, fail)
         calls == <<[op |-> "create", name |-> data.name]>>
     IN /\ made.used = 1 => nextTpl <= MaxTemplates
        /\ templates' = made.rows
        /\ nextTpl' = nextTpl + made.used
        /\ last' = Outcome("createTemplate", body, calls, made.err, createTemplateEvents(made))
  /\ creators' = [creators EXCEPT ![r] = [pc |-> "idle"]]
  /\ UNCHANGED <<locations, nextLoc, enforceUnique, lister>>

\* getTemplates: page and limit after parsing and defaulting.
DefaultPage == 1
DefaultLimit == 10

getTemplatesPage(q) ==
  LET page == ParseInt(Get(q, "page"))
  IN IF page.t = "nan" \/ page.v < 1 THEN DefaultPage ELSE page.v

\* Faulty variant of getTemplatesLimit: a limit below 1 is kept.
getTemplatesLimitNaNOnly(q) ==
  LET limit == ParseInt(Get(q, "limit"))
  IN IF limit.t = "nan" THEN DefaultLimit ELSE limit.v

getTemplatesLimit(q) ==
  LET limit == ParseInt(Get(q, "limit"))
  IN IF limit.t = "nan" \/ limit.v < 1 THEN DefaultLimit ELSE limit.v

getTemplatesSkip(q) == (getTemplatesPage(q) - 1) * getTemplatesLimit(q)

\* getTemplates: the filter groups, AND-combined; <<>> is the empty where.
getTemplatesWhere(q) ==
  LET type == Get(q, "type")
      search == Dflt(Get(q, "search"), Str(<<>>))
  IN (IF Truthy(type) THEN <<[f |-> "type", v |-> type.v]>> ELSE <<>>)
     \o (IF Trim(search.v) # <<>> THEN <<[f |-> "search", v |-> search.v]>> ELSE <<>>)

\* Faulty variant of MathCeilDiv: Math.floor.
MathFloorDiv(total, limit) == total \div limit

\* Math.ceil(total / limit) for total >= 0 and limit >= 1.
MathCeilDiv(total, limit) == (total + limit - 1) \div limit

getTemplatesCalls(q) ==
  <<[op |-> "findMany", where |-> getTemplatesWhere(q),
     skip |-> getTemplatesSkip(q), take |-> getTemplatesLimit(q)],
    [op |-> "count", where |-> getTemplatesWhere(q)]>>

getTemplatesResponse(q, data, total) ==
  [success |-> TRUE,
   total |-> total,
   currentPage |-> getTemplatesPage(q),
   totalPages |-> MathCeilDiv(total, getTemplatesLimit(q)),
   data |-> [i \in DOMAIN data |-> transformTemplate(data[i])]]

\* One of the two queries of Promise.all([findMany, count]).
getTemplatesQuery(q, which, fail) ==
  IF which = "findMany"
  THEN StoreTplFindMany(getTemplatesWhere(q), getTemplatesSkip(q), getTemplatesLimit(q), fail)
  ELSE StoreTplCount(getTemplatesWhere(q), fail)

\* getTemplates from its start to the return of whichever of its two queries
\* the store answers first; a failure rejects Promise.all at once.
GetTemplatesFirst(q, which, fail) ==
  /\ lister.pc = "idle"
  /\ LET got == getTemplatesQuery(q, which, fail)
     IN IF got.err # "none"
        THEN /\ last' = Outcome("getTemplates", q, getTemplatesCalls(q), got.err, <<NextEv(500)>>)
             /\ UNCHANGED lister
        ELSE /\ last' = Pending("getTemplates", q, getTemplatesCalls(q))
             /\ lister' = [pc |-> "reading", q |-> q, first |-> which, got |-> got.val,
                           snapshot |-> templates]
  /\ UNCHANGED <<templates, nextTpl, locations, nextLoc, enforceUnique, creators>>

\* getTemplates: the other query returns and the response is written.
GetTemplatesSecond(fail) ==
  /\ lister.pc = "reading"
  /\ LET q == lister.q
         other == IF lister.first = "findMany" THEN "count" ELSE "findMany"
         got == getTemplatesQuery(q, other, fail)
         data == IF lister.first = "findMany" THEN lister.got ELSE got.val
         total == IF lister.first = "count" THEN lister.got ELSE got.val
     IN last' = IF got.err # "none"
                THEN Outcome("getTemplates", q, getTemplatesCalls(q), got.err, <<NextEv(500)>>)
                ELSE [Outcome("getTemplates", q, getTemplatesCalls(q), "none",
                              <<SendEv(200, getTemplatesResponse(q, data, total))>>)
                      EXCEPT !.raced = lister.snapshot # templates]
  /\ lister' = [pc |-> "idle"]
  /\ UNCHANGED <<templates, nextTpl, locations, nextLoc, enforceUnique, creators>>

\* getTemplateById
getTemplateByIdEvents(found) ==
  IF found.err # "none" THEN <<NextEv(500)>>
  ELSE IF found.val = Null THEN <<NextEv(404)>>
  ELSE <<SendEv(200, [success |-> TRUE, data |-> transformTemplate(found.val)])>>

GetTemplateById(id, fail) ==
  /\ LET found == StoreTplFindById(id, fail)
     IN last' = Outcome("getTemplateById", [id |-> id], <<[op |-> "findUnique", id |-> id]>>,
                        found.err, getTemplateByIdEvents(found))
  /\ UNCHANGED <<templates, nextTpl, locations, nextLoc, enforceUnique, creators, lister>>

\* Faulty variant of updateTemplateClean: createdAt is left in.
updateTemplateCleanKeepsCreatedAt(body) ==
  Without(Without(Without(body, "_id"), "id"), "updatedAt")

\* updateTemplate: the body without the identity and timestamp keys.
updateTemplateClean(body) ==
  Without(Without(Without(Without(body, "_id"), "id"), "createdAt"), "updatedAt")

updateTemplateEvents(res) ==
  IF res.err = "P2025" THEN <<NextEv(404)>>
  ELSE IF res.err # "none" THEN <<NextEv(500)>>
  ELSE <<SendEv(200, [success |-> TRUE, data |-> transformTemplate(res.val)])>>

UpdateTemplate(id, body, fail) ==
  /\ LET clean == updateTemplateClean(body)
         res == StoreTplUpdate(id, clean, fail)
     IN /\ templates' = res.rows
        /\ last' = Outcome("updateTemplate", [id |-> id, body |-> body],
                           <<[op |-> "update", id |-> id, data |-> clean]>>,
                           res.err, updateTemplateEvents(res))
  /\ UNCHANGED <<nextTpl, locations, nextLoc, enforceUnique, creators, lister>>

\* deleteTemplate
deleteTemplateEvents(res) ==
  IF res.err = "P2025" THEN <<NextEv(404)>>
  ELSE IF res.err # "none" THEN <<NextEv(500)>>
  ELSE <<SendEv(200, [success |-> TRUE])>>

DeleteTemplate(id, fail) ==
  /\ LET res == StoreTplDelete(id, fail)
     IN /\ templates' = res.rows
        /\ last' = Outcome("deleteTemplate", [id |-> id], <<[op |-> "delete", id |-> id]>>,
                           res.err, deleteTemplateEvents(res))
  /\ UNCHANGED <<nextTpl, locations, nextLoc, enforceUnique, creators, lister>>

\* ------------------------------------------------------- Location store
CityRow(c) == [id |-> c, Name |-> c, Status |-> <<"Active">>]

\* include: { City: { select: { id, Name, Status } } }
IncludeCity(row) ==
  [k \in (DOMAIN row) \cup {"City"} |->
     IF k = "City" THEN (IF row.cityId \in Cities THEN CityRow(row.cityId) ELSE Null)
     ELSE row[k]]

LocMatches(row, where) ==
  /\ Has(where, "Name") => ContainsInsensitive(row.Name, where.Name)
  /\ Has(where, "cityId") => row.cityId = where.cityId

RECURSIVE InsertByName(_, _)
InsertByName(x, sorted) ==
  IF sorted = <<>> THEN <<x>>
  ELSE IF StrLeq(Head(sorted).Name, x.Name)
       THEN <<Head(sorted)>> \o InsertByName(x, Tail(sorted))
       ELSE <<x>> \o sorted

\* orderBy: { Name: "asc" }
RECURSIVE SortByName(_)
SortByName(seq) == IF seq = <<>> THEN <<>> ELSE InsertByName(Head(seq), SortByName(Tail(seq)))

\* take: undefined is no cap, n >= 0 the first n rows, n < 0 the last -n rows;
\* a take that is not an integer (NaN) is rejected when the arguments are validated.
Take(seq, take) ==
  IF take.t = "undef" THEN seq
  ELSE IF take.v >= 0 THEN SubSeq(seq, 1, IF take.v < Len(seq) THEN take.v ELSE Len(seq))
  ELSE SubSeq(seq, IF Len(seq) + take.v < 0 THEN 1 ELSE Len(seq) + take.v + 1, Len(seq))

\* prisma.location.findMany({ where, include, orderBy: { Name: "asc" }, take })
StoreLocFindMany(where, take, fail) ==
  IF fail THEN [err |-> "down", val |-> <<>>]
  ELSE IF take.t \notin {"undef", "num"} THEN [err |-> "validation", val |-> <<>>]
  ELSE LET m == Take(SortByName(FilterSeq(locations, LocMatches, where)), take)
       IN [err |-> "none", val |-> [i \in DOMAIN m |-> IncludeCity(m[i])]]

\* prisma.location.findMany({ where: { cityId }, include, orderBy: { createdAt: "desc" } })
StoreLocFindManyByCity(cityId, fail) ==
  IF fail THEN [err |-> "down", val |-> <<>>]
  ELSE LET m == FilterSeq(locations, LocMatches, [cityId |-> cityId])
       IN [err |-> "none", val |-> [i \in DOMAIN m |-> IncludeCity(m[i])]]

\* prisma.location.findUnique({ where: { id }, include })
StoreLocFindById(id, fail) ==
  IF fail THEN [err |-> "down", val |-> Null]
  ELSE IF Indices(locations, id) = {} THEN [err |-> "none", val |-> Null]
  ELSE [err |-> "none",
        val |-> IncludeCity(locations[CHOOSE i \in Indices(locations, id) : TRUE])]

LocUpdatable == {"Name", "Status", "cityId"}

\* prisma.location.create({ data, include }): the arguments are validated first;
\* a cityId that references no City is a foreign-key failure (P2003).
StoreLocCreate(data, fail) ==
  IF fail THEN [err |-> "down", val |-> Null, rows |-> locations, used |-> 0]
  ELSE IF \E k \in DOMAIN data : k \notin LocUpdatable \/ data[k].t # "str"
  THEN [err |-> "validation", val |-> Null, rows |-> locations, used |-> 0]
  ELSE IF data.cityId.v \notin Cities
  THEN [err |-> "P2003", val |-> Null, rows |-> locations, used |-> 0]
  ELSE LET row == [k \in (DOMAIN data) \cup {"id"} |-> IF k = "id" THEN nextLoc ELSE data[k].v]
       IN [err |-> "none", val |-> IncludeCity(row), rows |-> <<row>> \o locations, used |-> 1]

\* prisma.location.update({ where: { id }, data, include }): the arguments are
\* validated before the row is looked up; a missing row is P2025.
StoreLocUpdate(id, data, fail) ==
  IF fail THEN [err |-> "down", val |-> Null, rows |-> locations]
  ELSE IF \E k \in DOMAIN data : k \notin LocUpdatable \/ data[k].t # "str"
  THEN [err |-> "validation", val |-> Null, rows |-> locations]
  ELSE IF Indices(locations, id) = {}
  THEN [err |-> "P2025", val |-> Null, rows |-> locations]
  ELSE IF Has(data, "cityId") /\ data.cityId.v \notin Cities
  THEN [err |-> "P2003", val |-> Null, rows |-> locations]
  ELSE LET i == CHOOSE j \in Indices(locations, id) : TRUE
           old == locations[i]
           row == [k \in DOMAIN old |-> IF k \in DOMAIN data THEN data[k].v ELSE old[k]]
       IN [err |-> "none", val |-> IncludeCity(row),
           rows |-> [locations EXCEPT ![i] = row]]

\* prisma.location.delete({ where: { id } })
StoreLocDelete(id, fail) ==
  IF fail THEN [err |-> "down", rows |-> locations]
  ELSE IF Indices(locations, id) = {} THEN [err |-> "P2025", rows |-> locations]
  ELSE [err |-> "none", rows |-> Remove(locations, CHOOSE j \in Indices(locations, id) : TRUE)]

\* --------------------------------------------------- Location controller
transformLocation(loc) ==
  [_id |-> loc.id, Name |-> loc.Name, Status |-> loc.Status,
   City |-> IF loc.City # Null
            THEN [_id |-> loc.City.id, Name |-> loc.City.Name, Status |-> loc.City.Status]
            ELSE Null]

\* getLocation: the where object built from keyword and city.
getLocationWhere(q) ==
  Merge(IF Truthy(Get(q, "keyword")) THEN [Name |-> Trim(Get(q, "keyword").v)] ELSE EmptyObj,
        IF Truthy(Get(q, "city")) THEN [cityId |-> Get(q, "city").v] ELSE EmptyObj)

\* take: limit ? Number(limit) : undefined
getLocationTake(q) == IF Truthy(Get(q, "limit")) THEN ToNumber(Get(q, "limit")) ELSE Undef

getLocationEvents(res) ==
  IF res.err # "none" THEN <<NextEv(500)>>
  ELSE <<SendEv(200, [i \in DOMAIN res.val |-> transformLocation(res.val[i])])>>

GetLocation(q, fail) ==
  /\ LET res == StoreLocFindMany(getLocationWhere(q), getLocationTake(q), fail)
     IN last' = Outcome("getLocation", q,
                        <<[op |-> "findMany", where |-> getLocationWhere(q),
                           take |-> getLocationTake(q)]>>,
                        res.err, getLocationEvents(res))
  /\ UNCHANGED <<templates, nextTpl, locations, nextLoc, enforceUnique, creators, lister>>

\* Faulty variant of getLocationByIdEvents: no return after next(404).
getLocationByIdEventsNoReturn(found) ==
  IF found.err # "none" THEN <<NextEv(500)>>
  ELSE IF found.val = Null THEN <<NextEv(404), SendEv(200, Null)>>
  ELSE <<SendEv(200, transformLocation(found.val))>>

getLocationByIdEvents(found) ==
  IF found.err # "none" THEN <<NextEv(500)>>
  ELSE IF found.val = Null THEN <<NextEv(404)>>
  ELSE <<SendEv(200, transformLocation(found.val))>>

GetLocationById(id, fail) ==
  /\ LET found == StoreLocFindById(id, fail)
     IN last' = Outcome("getLocationById", [id |-> id], <<[op |-> "findUnique", id |-> id]>>,
                        found.err, getLocationByIdEvents(found))
  /\ UNCHANGED <<templates, nextTpl, locations, nextLoc, enforceUnique, creators, lister>>

\* createLocation: the data of prisma.location.create.
createLocationData(body) ==
  [Name |-> Get(body, "Name"),
   Status |-> IF Truthy(Get(body, "Status")) THEN Get(body, "Status") ELSE Str(<<"Active">>),
   cityId |-> Get(body, "City")]

CreateLocation(body, fail) ==
  /\ IF ~Truthy(Get(body, "City"))
     THEN /\ last' = Outcome("createLocation", body, <<>>, "none", <<NextEv(400)>>)
          /\ UNCHANGED <<locations, nextLoc>>
     ELSE LET data == createLocationData(body)
              made == StoreLocCreate(data, fail)
          IN /\ made.used = 1 => nextLoc <= MaxLocations
             /\ locations' = made.rows
             /\ nextLoc' = nextLoc + made.used
             /\ last' = Outcome("createLocation", body, <<[op |-> "create", data |-> data]>>,
                                made.err,
                                IF made.err # "none" THEN <<NextEv(400)>>
                                ELSE <<SendEv(201, transformLocation(made.val))>>)
  /\ UNCHANGED <<templates, nextTpl, enforceUnique, creators, lister>>

\* updateLocation: the body without identity, timestamp and City keys, with
\* cityId set from a truthy City.
updateLocationData(body) ==
  LET stripped ==
        Without(Without(Without(Without(Without(body, "id"), "_id"), "createdAt"),
                        "updatedAt"), "City")
  IN IF Truthy(Get(body, "City")) THEN With(stripped, "cityId", Get(body, "City"))
     ELSE stripped

updateLocationEvents(res) ==
  IF res.err = "P2025" THEN <<NextEv(404)>>
  ELSE IF res.err # "none" THEN <<NextEv(400)>>
  ELSE <<SendEv(200, transformLocation(res.val))>>

UpdateLocation(id, body, fail) ==
  /\ LET data == updateLocationData(body)
         res == StoreLocUpdate(id, data, fail)
     IN /\ locations' = res.rows
        /\ last' = Outcome("updateLocation", [id |-> id, body |-> body],
                           <<[op |-> "update", id |-> id, data |-> data]>>,
                           res.err, updateLocationEvents(res))
  /\ UNCHANGED <<templates, nextTpl, nextLoc, enforceUnique, creators, lister>>

deleteLocationEvents(res) ==
  IF res.err = "P2025" THEN <<NextEv(404)>>
  ELSE IF res.err # "none" THEN <<NextEv(500)>>
  ELSE <<SendEv(200, [message |-> "Location deleted successfully"])>>

DeleteLocation(id, fail) ==
  /\ LET res == StoreLocDelete(id, fail)
     IN /\ locations' = res.rows
        /\ last' = Outcome("deleteLocation", [id |-> id], <<[op |-> "delete", id |-> id]>>,
                           res.err, deleteLocationEvents(res))
  /\ UNCHANGED <<templates, nextTpl, nextLoc, enforceUnique, creators, lister>>

getLocationByCityEvents(res) ==
  IF res.err # "none" THEN <<NextEv(500)>>
  ELSE IF Len(res.val) = 0 THEN <<NextEv(404)>>
  ELSE <<SendEv(200, [success |-> TRUE, count |-> Len(res.val),
                      data |-> [i \in DOMAIN res.val |-> transformLocation(res.val[i])]])>>

GetLocationByCity(cityId, fail) ==
  /\ LET res == StoreLocFindManyByCity(cityId, fail)
     IN last' = Outcome("getLocationByCity", [cityId |-> cityId],
                        <<[op |-> "findMany", cityId |-> cityId]>>,
                        res.err, getLocationByCityEvents(res))
  /\ UNCHANGED <<templates, nextTpl, locations, nextLoc, enforceUnique, creators, lister>>

\* ---------------------------------------------------------------- inputs
\* A request object with key k when v is defined.
Field(k, v) == IF v.t = "undef" THEN EmptyObj ELSE [x \in {k} |-> v]

S(c) == Str(<<c>>)

\* Each input once with the store answering, and input x once with the store failing.
Answered(xs, x) == (xs \X {FALSE}) \cup {<<x, TRUE>>}

\* Identity and timestamp keys a caller may put in an update body.
ForbiddenAll == [k \in {"id", "_id", "createdAt", "updatedAt"} |-> S("zz")]
ForbiddenParts == {ForbiddenAll} \cup {Field(k, S("zz")) : k \in DOMAIN ForbiddenAll}

NestedCity(c) == Obj([_id |-> c, Name |-> c, Status |-> <<"Active">>])

TplBody(n, t, b) == Merge(Field("name", n), Merge(Field("type", t), Field("body", b)))
TplQuery(p, l, t, x) ==
  Merge(Merge(Field("page", p), Field("limit", l)), Merge(Field("type", t), Field("search", x)))
LocQuery(k, l, c) == Merge(Field("keyword", k), Merge(Field("limit", l), Field("city", c)))
LocBody(n, c, i) == Merge(Field("Name", n), Merge(Field("City", c), Field("cityId", i)))

ValidTplBody == TplBody(S("a"), S("email"), S("x"))

\* Template requests, the wider sets.
PageTexts == {Undef, S("0"), S("2"), Str(<<"-", "5">>), S("x"), Str(<<" ", "3", "x">>)}
LimitTexts ==
  {Undef, S("0"), S("1"), S("2"), Str(<<"-", "5">>), Str(<<"1", "x">>), S("x")}

RichTplCreate ==
  {TplBody(n, S("email"), S("x")) : n \in {Undef, Str(<<>>), S("a"), S("B")}}
  \cup {TplBody(S("a"), Undef, S("x")), TplBody(S("a"), S("email"), Undef),
        TplBody(S("a"), S("email"), Str(<<>>))}
RichTplQueries ==
  {TplQuery(p, l, Undef, Undef) : p \in PageTexts, l \in {Undef, S("1")}}
  \cup {TplQuery(p, l, Undef, Undef) : p \in {Undef, S("2")}, l \in LimitTexts}
  \cup {TplQuery(Undef, S("1"), t, x) : t \in {Undef, S("sms")}, x \in {S(" "), S("A")}}
  \cup {TplQuery(S("0"), Str(<<"-", "5">>), Undef, Undef),
        TplQuery(S("1"), Str(<<"1", "0">>), Undef, Undef)}
RichTplUpdate ==
  ForbiddenParts \cup {Field("name", n) : n \in {S("a"), S("B")}}
  \cup {Merge(ForbiddenAll, Field("name", S("B")))}

\* Template requests, the narrower sets.
LeanTplCreate == {ValidTplBody}
LeanTplQueries == {TplQuery(Undef, Undef, Undef, Undef), TplQuery(S("2"), S("1"), Undef, S("a"))}
LeanTplUpdate == {Field("name", S("B"))}
StatusTplUpdate == {Merge(ForbiddenAll, Field("status", S("x")))}

\* Location requests.
LocQueries == {LocQuery(Undef, l, Undef) : l \in {Undef, S("1"), S("x")}}
              \cup {LocQuery(Str(<<" ", "A", " ">>), Str(<<>>), S("c1"))}
LocCreateBodies == {LocBody(S("a"), c, Undef) : c \in {Undef, S("c1")}}
LocUpdateBodies ==
  {Merge(ForbiddenAll, LocBody(S("B"), S("c2"), S("c1")))}
  \cup {LocBody(Undef, c, Undef) : c \in {S("c2"), NestedCity(<<"c2">>), Null}}
  \cup {LocBody(Undef, Undef, S("c1"))}

\* ------------------------------------------------------- specifications
\* No request is between two of its store calls.
Quiet == lister.pc = "idle" /\ \A r \in Creators : creators[r].pc = "idle"

\* A store with a unique index on Template.name, as findUnique({ where: { name } }) requires.
Init ==
  /\ templates = <<>>
  /\ nextTpl = 1
  /\ locations = <<>>
  /\ nextLoc = 1
  /\ enforceUnique = TRUE
  /\ creators = [r \in Creators |-> [pc |-> "idle"]]
  /\ lister = [pc |-> "idle"]
  /\ last = NoStep

\* The same, the unique index being there or not.
InitAnyStore ==
  /\ templates = <<>>
  /\ nextTpl = 1
  /\ locations = <<>>
  /\ nextLoc = 1
  /\ enforceUnique \in BOOLEAN
  /\ creators = [r \in Creators |-> [pc |-> "idle"]]
  /\ lister = [pc |-> "idle"]
  /\ last = NoStep

\* When requests are served one at a time, one starts only when none is under way.
Go(serial) == serial => Quiet

\* The Template controller; a request starts only when Go(serial), R are the
\* createTemplate invocations, B their bodies, each with whether the store fails,
\* W the query of getTemplates answered first.
TemplateSteps(serial, R, B, Q, W, U) ==
  \/ \E r \in R, b \in B : Go(serial) /\ CreateTemplateCheck(r, b[1], b[2])
  \/ \E r \in R, f \in BOOLEAN : CreateTemplateInsert(r, f)
  \/ \E q \in Answered(Q, EmptyObj), w \in W : Go(serial) /\ GetTemplatesFirst(q[1], w, q[2])
  \/ \E f \in BOOLEAN : GetTemplatesSecond(f)
  \/ \E i \in Answered(TplIds, 1) : Go(serial) /\ GetTemplateById(i[1], i[2])
  \/ \E i \in TplIds, u \in Answered(U, EmptyObj) : Go(serial) /\ UpdateTemplate(i, u[1], u[2])
  \/ \E i \in Answered(TplIds, 1) : Go(serial) /\ DeleteTemplate(i[1], i[2])

\* The Location controller.
LocationSteps(serial, Q, B, U) ==
  \/ \E q \in Answered(Q, EmptyObj) : Go(serial) /\ GetLocation(q[1], q[2])
  \/ \E i \in Answered(LocIds, 1) : Go(serial) /\ GetLocationById(i[1], i[2])
  \/ \E b \in Answered(B, LocBody(S("a"), S("c1"), Undef)) : Go(serial) /\ CreateLocation(b[1], b[2])
  \/ \E i \in LocIds, u \in Answered(U, EmptyObj) : Go(serial) /\ UpdateLocation(i, u[1], u[2])
  \/ \E i \in Answered(LocIds, 1) : Go(serial) /\ DeleteLocation(i[1], i[2])
  \/ \E c \in Answered(Cities, <<"c1">>) : Go(serial) /\ GetLocationByCity(c[1], c[2])

\* Both controllers, requests served one at a time.
Next ==
  \/ TemplateSteps(TRUE, {"r1"}, Answered(LeanTplCreate, ValidTplBody), {EmptyObj},
                   {"findMany"}, StatusTplUpdate)
  \/ LocationSteps(TRUE, LocQueries, LocCreateBodies, LocUpdateBodies)

Spec == Init /\ [][Next]_vars

\* The Template controller alone, requests served one at a time, wider request sets.
NextTpl ==
  TemplateSteps(TRUE, {"r1"},
                Answered(RichTplCreate, ValidTplBody)
                  \cup {<<TplBody(S("a"), S("email"), Undef), TRUE>>},
                RichTplQueries, {"findMany"}, RichTplUpdate)

SpecTpl == Init /\ [][NextTpl]_vars

\* The Template controller alone, requests interleaving at their awaits.
NextConc ==
  TemplateSteps(FALSE, Creators, Answered(LeanTplCreate, ValidTplBody), LeanTplQueries,
                {"findMany", "count"}, LeanTplUpdate)

SpecConc == InitAnyStore /\ [][NextConc]_vars

\* ------------------------------------------------------------------ claims
\* A request field that is missing or empty.
Missing(v) == v.t \in {"undef", "null"} \/ (v.t = "str" /\ v.v = <<>>)
MissingAny(body) ==
  Missing(Get(body, "name")) \/ Missing(Get(body, "type")) \/ Missing(Get(body, "body"))
CountNamed(rows, n) == Cardinality({i \in DOMAIN rows : rows[i].name = n})
RowIds(rows) == {rows[i].id : i \in DOMAIN rows}
IsLookup(o) == o.calls # <<>> /\ o.calls[1].op = "findUnique"
IsInsert(o) == o.calls # <<>> /\ o.calls[1].op = "create"

\* A createTemplate request with name, type and body whose lookup the store
\* answered while no Template has its name goes on to the insert.
PassesCheck ==
  (/\ last'.h = "createTemplate" /\ IsLookup(last') /\ last'.err # "down"
   /\ ~MissingAny(last'.req)
   /\ CountNamed(templates, Get(last'.req, "name").v) = 0)
  => (last'.step = "await" /\ templates' = templates)

\* Its insert, answered while still no Template has its name, ends 201 with one such row.
InsertsOnce ==
  (/\ last'.h = "createTemplate" /\ IsInsert(last') /\ last'.err # "down"
   /\ CountNamed(templates, Get(last'.req, "name").v) = 0)
  => (/\ last'.status = 201 /\ last'.sent = 1
      /\ CountNamed(templates', Get(last'.req, "name").v) = 1)

\* A createTemplate request that starts right after one with the same name ended 201 ends 409.
SecondConflicts ==
  (/\ last.h = "createTemplate" /\ last.status = 201
   /\ last'.h = "createTemplate" /\ IsLookup(last') /\ last'.err # "down"
   /\ ~MissingAny(last'.req)
   /\ Get(last'.req, "name") = Get(last.req, "name"))
  => (/\ last'.status = 409 /\ last'.fwd = 1 /\ last'.sent = 0
      /\ templates' = templates
      /\ CountNamed(templates', Get(last'.req, "name").v) = 1)

\* C1: from a store with no Template named n, two createTemplate requests with
\* name n served one after the other end 201 then 409, and one Template named n
\* is stored afterwards (the store answering every call).
C1_SequentialCreate == [][PassesCheck /\ InsertsOnce /\ SecondConflicts]_vars

C1_Witness ==
  /\ last.h = "createTemplate" /\ last.status = 409 /\ last.err = "none"
  /\ CountNamed(templates, Get(last.req, "name").v) = 1

\* The insert step of createTemplate invocation r.
InsertBy(r) == creators[r].pc = "checked" /\ creators'[r].pc = "idle"

RaceOutcome(r) ==
  LET n == Get(creators[r].body, "name").v
  IN /\ CountNamed(templates, n) = 0 =>
          (last'.status = 201 /\ CountNamed(templates', n) = 1)
     /\ CountNamed(templates, n) > 0 =>
          IF enforceUnique
          THEN /\ last'.status = 500 /\ last'.fwd = 1 /\ last'.sent = 0
               /\ templates' = templates /\ CountNamed(templates', n) = 1
          ELSE /\ last'.status = 201
               /\ CountNamed(templates', n) = CountNamed(templates, n) + 1
     /\ \A o \in Creators \ {r} : creators'[o] = creators[o]

\* C2: createTemplate requests with the same name whose lookups all return
\* before any insert all pass the check; the first insert ends 201; an insert
\* that finds the name taken since its lookup ends 500 (not 409) leaving one
\* such row when the store has a unique index, and ends 201 adding a second
\* row of that name when it has none.
C2_CheckThenInsertRace ==
  [][PassesCheck /\ \A r \in Creators : (InsertBy(r) /\ last'.err # "down") => RaceOutcome(r)]_vars

C2_Witness ==
  /\ last.h = "createTemplate" /\ last.err = "P2002" /\ last.status = 500
  /\ enforceUnique
  /\ CountNamed(templates, Get(last.req, "name").v) = 1

\* The least k with k * l >= t.
CeilOf(t, l) == CHOOSE k \in 0..t : k * l >= t /\ \A j \in 0..(k - 1) : j * l < t
MatchingCount(where) == Cardinality({i \in DOMAIN templates : TplMatches(templates[i], where)})

ListAnswered == last.h = "getTemplates" /\ last.status = 200

\* C3 as stated: every getTemplates response has totalPages = ceil(total / L),
\* total is the number of stored Templates matching the filter, and a page
\* beyond totalPages has empty data.
C3_Original ==
  ListAnswered =>
    /\ last.calls[1].take > 0
    /\ last.data.totalPages = CeilOf(last.data.total, last.calls[1].take)
    /\ last.data.total = MatchingCount(last.calls[2].where)
    /\ last.data.currentPage > last.data.totalPages => last.data.data = <<>>

\* C3 as amended: totalPages = ceil(total / L) in every response; total is the
\* number of matching Templates and a page beyond totalPages is empty when the
\* store did not change between the request's two queries.
C3_Pagination ==
  ListAnswered =>
    /\ last.calls[1].take > 0
    /\ last.data.totalPages = CeilOf(last.data.total, last.calls[1].take)
    /\ ~last.raced =>
         /\ last.data.total = MatchingCount(last.calls[2].where)
         /\ last.data.currentPage > last.data.totalPages => last.data.data = <<>>

C3_Witness ==
  /\ ListAnswered /\ ~last.raced
  /\ last.data.total > 0
  /\ last.data.currentPage > last.data.totalPages
  /\ last.data.data = <<>>

\* C8: a createTemplate request with name, type or body missing or empty ends
\* with 400 forwarded once, issues no store call and leaves the store as it was.
C8_ValidationFirst ==
  [][(last'.h = "createTemplate" /\ MissingAny(last'.req)) =>
       (/\ last'.status = 400 /\ last'.fwd = 1 /\ last'.sent = 0
        /\ last'.calls = <<>>
        /\ templates' = templates /\ nextTpl' = nextTpl /\ creators' = creators)]_vars

C8_Witness ==
  /\ last.h = "createTemplate" /\ last.status = 400
  /\ Missing(Get(last.req, "body")) /\ ~Missing(Get(last.req, "name"))
  /\ last.calls = <<>>

\* The integer a query text starts with, if any: white space, an optional
\* minus sign, then digits; NaN when there is none.
RECURSIVE Pow10(_)
Pow10(n) == IF n = 0 THEN 1 ELSE 10 * Pow10(n - 1)

RECURSIVE PlaceSum(_, _)
PlaceSum(d, i) ==
  IF i > Len(d) THEN 0 ELSE DigitVal(d[i]) * Pow10(Len(d) - i) + PlaceSum(d, i + 1)

LeadingInteger(x) ==
  IF x.t # "str" THEN NaN
  ELSE LET s == x.v
           k == CHOOSE j \in 0..Len(s) :
                  (\A i \in 1..j : s[i] = " ") /\ (j = Len(s) \/ s[j + 1] # " ")
           t == SubSeq(s, k + 1, Len(s))
           neg == Len(t) > 0 /\ t[1] = "-"
           u == IF neg THEN SubSeq(t, 2, Len(t)) ELSE t
           ks == {j \in 1..Len(u) : \A i \in 1..j : IsDigit(u[i])}
       IN IF ks = {} THEN NaN
          ELSE LET m == CHOOSE j \in ks : \A i \in ks : i <= j
               IN Num((IF neg THEN 0 - 1 ELSE 1) * PlaceSum(SubSeq(u, 1, m), 1))

EffectivePage(q) ==
  LET v == LeadingInteger(Get(q, "page")) IN IF v.t = "nan" \/ v.v < 1 THEN 1 ELSE v.v
EffectiveLimit(q) ==
  LET v == LeadingInteger(Get(q, "limit")) IN IF v.t = "nan" \/ v.v < 1 THEN 10 ELSE v.v

\* C9: getTemplates treats a page that is absent, unparseable or below 1 as 1
\* and a limit that is absent, unparseable or below 1 as 10, each on its own;
\* findMany gets skip (page - 1) * limit and take limit, and currentPage is the page.
C9_PageLimitDefaults ==
  last.h = "getTemplates" =>
    /\ last.calls[1].op = "findMany"
    /\ last.calls[1].take = EffectiveLimit(last.req)
    /\ last.calls[1].skip = (EffectivePage(last.req) - 1) * EffectiveLimit(last.req)
    /\ last.status = 200 => last.data.currentPage = EffectivePage(last.req)

C9_Witness ==
  /\ last.h = "getTemplates" /\ last.status = 200
  /\ Get(last.req, "page") = S("0") /\ Get(last.req, "limit") = Str(<<"-", "5">>)
  /\ last.data.currentPage = 1 /\ last.calls[1].take = 10 /\ last.calls[1].skip = 0

\* What the claims about getLocation read as a limit: an optionally signed
\* run of digits, white space around it ignored; anything else is no limit.
LimitGiven(x) ==
  /\ x.t = "str"
  /\ LET t == Trim(x.v)
         u == IF Len(t) > 0 /\ t[1] = "-" THEN SubSeq(t, 2, Len(t)) ELSE t
     IN Len(u) > 0 /\ \A i \in 1..Len(u) : IsDigit(u[i])

LimitValue(x) ==
  LET t == Trim(x.v)
  IN IF t[1] = "-" THEN 0 - PlaceSum(SubSeq(t, 2, Len(t)), 1) ELSE PlaceSum(t, 1)

LocationsMatching(q) ==
  LET m == SortByName(FilterSeq(locations, LocMatches, getLocationWhere(q)))
  IN [i \in DOMAIN m |-> transformLocation(IncludeCity(m[i]))]

Smaller(a, b) == IF a < b THEN a ELSE b

\* C4 as stated: getLocation whose store call is not failed by the store ends
\* 200; without a parseable limit it returns every match in ascending Name
\* order, with limit n the first min(n, matches) of them.
C4_Claim ==
  (last.h = "getLocation" /\ last.err # "down") =>
    LET all == LocationsMatching(last.req)
        limit == Get(last.req, "limit")
    IN /\ last.status = 200 /\ last.sent = 1
       /\ last.data = IF LimitGiven(limit)
                      THEN SubSeq(all, 1, Smaller(LimitValue(limit), Len(all)))
                      ELSE all

IdentityKeys == {"id", "_id", "createdAt", "updatedAt"}
IsUpdate == last.h \in {"updateLocation", "updateTemplate"}
UpdatedRow == IF last.h = "updateTemplate" THEN last.data.data ELSE last.data

\* C5 as stated: neither update passes id, _id, createdAt or updatedAt to the
\* store, and every other body field is passed unchanged.
C5_Original ==
  IsUpdate =>
    LET body == last.req.body
        data == last.calls[1].data
    IN /\ (DOMAIN data) \cap IdentityKeys = {}
       /\ \A k \in (DOMAIN body) \ IdentityKeys : k \in DOMAIN data /\ data[k] = body[k]
       /\ last.status = 200 => UpdatedRow._id = last.req.id

\* C5 as amended: neither update passes id, _id, createdAt or updatedAt to the
\* store, and the updated row keeps the id of the path; every other body field
\* is passed unchanged and nothing is added, except that updateLocation never
\* passes City and passes the body's City as cityId whenever City is truthy.
C5_IdentityStripped ==
  IsUpdate =>
    LET body == last.req.body
        data == last.calls[1].data
        remapped == IF last.h = "updateLocation" THEN {"City", "cityId"} ELSE {}
        city == Get(body, "City")
    IN /\ (DOMAIN data) \cap IdentityKeys = {}
       /\ \A k \in (DOMAIN body) \ (IdentityKeys \cup remapped) :
            k \in DOMAIN data /\ data[k] = body[k]
       /\ (DOMAIN data) \subseteq (DOMAIN body) \cup remapped
       /\ last.h = "updateLocation" =>
            /\ "City" \notin DOMAIN data
            /\ IF ~Missing(city) THEN Get(data, "cityId") = city
               ELSE Get(data, "cityId") = Get(body, "cityId")
       /\ last.status = 200 => UpdatedRow._id = last.req.id

C5_Witness ==
  /\ last.h = "updateLocation" /\ last.status = 200
  /\ IdentityKeys \subseteq DOMAIN last.req.body
  /\ Has(last.req.body, "City") /\ Has(last.req.body, "cityId")
  /\ Get(last.req.body, "City") # Get(last.req.body, "cityId")

\* The City a body's City field refers to: the id itself, or the _id of the nested shape.
CityRef(v) == IF v.t = "obj" THEN v.v._id ELSE v.v
RefersToCity(v) == (v.t = "str" /\ v.v # <<>>) \/ v.t = "obj"

\* C6 as stated: updateLocation never passes City; a City given as an id or in
\* the nested shape sets cityId to that City and, the Location and the City
\* existing and the store answering, redirects the Location; without City the
\* body's cityId is passed as it is.
C6_Claim ==
  last.h = "updateLocation" =>
    LET body == last.req.body
        data == last.calls[1].data
        city == Get(body, "City")
    IN /\ "City" \notin DOMAIN data
       /\ RefersToCity(city) =>
            /\ Get(data, "cityId") = Str(CityRef(city))
            /\ (/\ CityRef(city) \in Cities /\ last.req.id \in RowIds(locations)
                /\ last.err # "down") =>
                 (last.status = 200 /\ last.data.City._id = CityRef(city))
       /\ ~Has(body, "City") => Get(data, "cityId") = Get(body, "cityId")

MissingTarget(h, rows) ==
  last'.h = h /\ last'.err # "down" /\ last'.req.id \notin RowIds(rows)

NotFoundOnly == last'.status = 404 /\ last'.fwd = 1 /\ last'.sent = 0

\* C7 as stated: an update or delete of a Location or Template whose id is not
\* stored ends with 404 forwarded and leaves the stored rows as they were
\* (the store answering the call).
C7_Claim ==
  [][/\ (MissingTarget("updateLocation", locations) \/ MissingTarget("deleteLocation", locations))
        => (NotFoundOnly /\ locations' = locations)
     /\ (MissingTarget("updateTemplate", templates) \/ MissingTarget("deleteTemplate", templates))
        => (NotFoundOnly /\ templates' = templates)]_vars

Handlers ==
  {"getLocation", "getLocationById", "createLocation", "updateLocation", "deleteLocation",
   "getLocationByCity", "createTemplate", "getTemplates", "getTemplateById", "updateTemplate",
   "deleteTemplate"}

\* C10: a handler step that ends an invocation either writes one success
\* response (200 or 201) or forwards one error with status 400, 404, 409 or 500,
\* never both and never neither; a failed store call always ends in a forwarded
\* error; a step that awaits a store call has written and forwarded nothing.
C10_OneOutcome ==
  /\ last.h \in Handlers \cup {"none"}
  /\ last.step = "await" => (last.sent = 0 /\ last.fwd = 0)
  /\ last.step = "end" =>
       /\ last.sent + last.fwd = 1
       /\ last.sent = 1 => last.status \in {200, 201}
       /\ last.fwd = 1 => last.status \in {400, 404, 409, 500}
       /\ last.err # "none" => (last.fwd = 1 /\ last.status \in {400, 404, 500})

C10_Witness ==
  /\ last.h = "getLocationById" /\ last.step = "end"
  /\ last.err = "none" /\ last.fwd = 1 /\ last.status = 404
====
